---- MODULE Spec2Model ----
(***************************************************************************)
(* Model of Tarefa.c: an interactive task manager made of a singly linked  *)
(* task list (TaskList: head, tail, next_id), an undo stack of Actions,    *)
(* and the menu loop of main that drives both.                             *)
(*                                                                         *)
(* The heap is explicit.  heap.task maps the address of every allocated    *)
(* Task node to its fields, heap.str maps the address of every allocated   *)
(* string to its contents; free removes the address from the map.  malloc  *)
(* hands out the lowest free address.  main's local buffer `description`   *)
(* is the string cell at address descriptionBuf, which is never freed.     *)
(* The undo stack is the sequence of its Action nodes, top first.          *)
(*                                                                         *)
(* main's local `choice` is not initialised: until scanf stores a number   *)
(* in it, it holds Indeterminate, and a test of it can go either way.      *)
(* Input that ends (EOF) is not modelled: every prompt gets a line.        *)
(***************************************************************************)
EXTENDS Integers, Sequences, FiniteSets, TLC

\* Bounds of the model: an add is taken only while next_id <= MaxId, and a
\* command that can record an action only while the history holds fewer than
\* MaxHist actions.
MaxId == 3
MaxHist == 4

\* Bound of SpecAny: the longest history undo is handed.
MaxAny == 2

\* The descriptions typed at the "add" prompt.
Descriptions == {"x", "y"}

\* The ids typed at the "complete" and "remove" prompts (MaxId + 1 is never issued).
Ids == 1..(MaxId + 1)

NULL == 0
descriptionBuf == -1

\* The value of `choice` before the first successful scanf.
Indeterminate == -1

\* The numbers typed at the menu that are no menu entry (the default case).
OtherChoices == {6}

VARIABLES
    myTasks,     \* TaskList of main: [head, tail, next_id]
    undoStack,   \* ActionStack of main: sequence of Actions, top first
    heap,        \* [task: address -> Task node, str: address -> string]
    last,        \* the last command of the menu loop and what it reported
    log,         \* the state-changing commands not undone so far, oldest first
    issued,      \* the ids printed by addTask since initTaskList, oldest first
    choice,      \* main's local `choice`
    pc           \* "menu" while the loop of main runs, "done" after it

vars == <<myTasks, undoStack, heap, last, log, issued, choice, pc>>

-----------------------------------------------------------------------------
(* Memory *)

\* malloc: the lowest address that is not allocated.
malloc(dom) ==
    CHOOSE a \in 1..(Cardinality(dom) + 1) :
        a \notin dom /\ \A b \in 1..(a - 1) : b \in dom

\* free(p): free(NULL) does nothing.
freeStr(h, p) ==
    IF p = NULL THEN h
    ELSE [h EXCEPT !.str = [q \in (DOMAIN h.str) \ {p} |-> h.str[q]]]

freeTask(h, p) ==
    [h EXCEPT !.task = [q \in (DOMAIN h.task) \ {p} |-> h.task[q]]]

\* strdup(s): a fresh string holding a copy of the string at s.
strdup(h, s) ==
    LET p == malloc(DOMAIN h.str)
    IN  [heap |-> [h EXCEPT !.str = (p :> h.str[s]) @@ h.str], ptr |-> p]

-----------------------------------------------------------------------------
(* Task list *)

initTaskList == [head |-> NULL, tail |-> NULL, next_id |-> 1]

createTask(h, id, description) ==
    LET newTask == malloc(DOMAIN h.task)
        d       == strdup(h, description)
        node    == [id |-> id, description |-> d.ptr,
                    completed |-> FALSE, next |-> NULL]
    IN  [heap |-> [d.heap EXCEPT !.task = (newTask :> node) @@ d.heap.task],
         ptr  |-> newTask]

\* The tail insertion shared by addTask and the ACTION_REMOVE case of undo.
appendNode(list, h, node) ==
    IF list.head = NULL
    THEN [list |-> [list EXCEPT !.head = node, !.tail = node], heap |-> h]
    ELSE [list |-> [list EXCEPT !.tail = node],
          heap |-> [h EXCEPT !.task[list.tail].next = node]]

\* Variant: uses next_id without incrementing it.
addTaskKeepsNextId(list, h, description) ==
    LET c == createTask(h, list.next_id, description)
        a == appendNode(list, c.heap, c.ptr)
    IN  [list |-> a.list, heap |-> a.heap, id |-> c.heap.task[c.ptr].id]

addTask(list, h, description) ==
    LET c == createTask(h, list.next_id, description)
        a == appendNode([list EXCEPT !.next_id = @ + 1], c.heap, c.ptr)
    IN  [list |-> a.list, heap |-> a.heap, id |-> c.heap.task[c.ptr].id]

\* The search loop `while (current != NULL && current->id != id)`:
\* the first node with that id and the node before it.
RECURSIVE findFrom(_, _, _, _)
findFrom(h, current, previous, id) ==
    IF current = NULL \/ h.task[current].id = id
    THEN [current |-> current, previous |-> previous]
    ELSE findFrom(h, h.task[current].next, current, id)

find(list, h, id) == findFrom(h, list.head, NULL, id)

\* Variant: no test of the completed flag.
completeTaskNoCheck(list, h, id) ==
    LET current == find(list, h, id).current
    IN  IF current = NULL
        THEN [heap |-> h, ok |-> FALSE, out |-> "not_found"]
        ELSE [heap |-> [h EXCEPT !.task[current].completed = TRUE],
              ok |-> TRUE, out |-> "toggled"]

\* Variant: returns true for a task that is already completed.
completeTaskReturnsTrue(list, h, id) ==
    LET current == find(list, h, id).current
    IN  IF current = NULL
        THEN [heap |-> h, ok |-> FALSE, out |-> "not_found"]
        ELSE IF h.task[current].completed
        THEN [heap |-> h, ok |-> TRUE, out |-> "already_completed"]
        ELSE [heap |-> [h EXCEPT !.task[current].completed = TRUE],
              ok |-> TRUE, out |-> "toggled"]

completeTask(list, h, id) ==
    LET current == find(list, h, id).current
    IN  IF current = NULL
        THEN [heap |-> h, ok |-> FALSE, out |-> "not_found"]
        ELSE IF h.task[current].completed
        THEN [heap |-> h, ok |-> FALSE, out |-> "already_completed"]
        ELSE [heap |-> [h EXCEPT !.task[current].completed = TRUE],
              ok |-> TRUE, out |-> "toggled"]

\* Variant: without `if (current == list->tail) list->tail = previous`.
unlinkKeepsTail(list, h, current, previous) ==
    LET l1 == IF previous = NULL
              THEN [list EXCEPT !.head = h.task[current].next]
              ELSE list
        h1 == IF previous = NULL
              THEN h
              ELSE [h EXCEPT !.task[previous].next = h.task[current].next]
    IN  [list |-> l1, heap |-> h1]

\* Variant: `previous->next = NULL` drops the nodes after `current` too.
unlinkTruncates(list, h, current, previous) ==
    LET l1 == IF previous = NULL
              THEN [list EXCEPT !.head = h.task[current].next]
              ELSE list
        h1 == IF previous = NULL
              THEN h
              ELSE [h EXCEPT !.task[previous].next = NULL]
        l2 == IF current = list.tail
              THEN [l1 EXCEPT !.tail = previous]
              ELSE l1
    IN  [list |-> l2, heap |-> h1]

\* Unlinks `current` (found after `previous`) from the list.
unlink(list, h, current, previous) ==
    LET l1 == IF previous = NULL
              THEN [list EXCEPT !.head = h.task[current].next]
              ELSE list
        h1 == IF previous = NULL
              THEN h
              ELSE [h EXCEPT !.task[previous].next = h.task[current].next]
        l2 == IF current = list.tail
              THEN [l1 EXCEPT !.tail = previous]
              ELSE l1
    IN  [list |-> l2, heap |-> h1]

\* The detached node stays allocated; the caller frees it.
removeTask(list, h, id) ==
    LET f == find(list, h, id)
    IN  IF f.current = NULL
        THEN [list |-> list, heap |-> h, removed |-> NULL]
        ELSE LET u == unlink(list, h, f.current, f.previous)
             IN  [list |-> u.list, heap |-> u.heap, removed |-> f.current]

\* Frees every node and its description, and resets the list.
RECURSIVE freeTasksFrom(_, _)
freeTasksFrom(h, current) ==
    IF current = NULL THEN h
    ELSE freeTasksFrom(freeTask(freeStr(h, h.task[current].description),
                                current),
                       h.task[current].next)

destroyTaskList(list, h) ==
    [list |-> [head |-> NULL, tail |-> NULL, next_id |-> 1],
     heap |-> freeTasksFrom(h, list.head)]

-----------------------------------------------------------------------------
(* Action stack *)

initActionStack == << >>

\* Variant: keeps the caller's pointer instead of a copy.
pushActionShares(stack, h, type, task_id, task_description, was_completed) ==
    LET newAction == [type |-> type, task_id |-> task_id,
                      task_description |-> task_description,
                      was_completed |-> was_completed]
    IN  [stack |-> <<newAction>> \o stack, heap |-> h]

\* Variant: `newAction->next = NULL`, the older actions are lost.
pushActionDropsRest(stack, h, type, task_id, task_description, was_completed) ==
    LET d == IF task_description # NULL
             THEN strdup(h, task_description)
             ELSE [heap |-> h, ptr |-> NULL]
        newAction == [type |-> type, task_id |-> task_id,
                      task_description |-> d.ptr,
                      was_completed |-> was_completed]
    IN  [stack |-> <<newAction>>, heap |-> d.heap]

pushAction(stack, h, type, task_id, task_description, was_completed) ==
    LET d == IF task_description # NULL
             THEN strdup(h, task_description)
             ELSE [heap |-> h, ptr |-> NULL]
        newAction == [type |-> type, task_id |-> task_id,
                      task_description |-> d.ptr,
                      was_completed |-> was_completed]
    IN  [stack |-> <<newAction>> \o stack, heap |-> d.heap]

\* The NULL that popAction returns when the stack is empty.
NullAction == [type |-> "NULL", task_id |-> 0, task_description |-> NULL,
               was_completed |-> FALSE]

\* Variant: takes the oldest action instead of the newest.
popActionOldest(stack) ==
    IF stack = << >>
    THEN [stack |-> stack, action |-> NullAction]
    ELSE [stack |-> SubSeq(stack, 1, Len(stack) - 1),
          action |-> stack[Len(stack)]]

popAction(stack) ==
    IF stack = << >>
    THEN [stack |-> stack, action |-> NullAction]
    ELSE [stack |-> Tail(stack), action |-> Head(stack)]

\* Frees every action and its description.
RECURSIVE freeActions(_, _)
freeActions(h, stack) ==
    IF stack = << >> THEN h
    ELSE freeActions(freeStr(h, Head(stack).task_description), Tail(stack))

destroyActionStack(stack, h) ==
    [stack |-> << >>, heap |-> freeActions(h, stack)]

-----------------------------------------------------------------------------
(* Undo *)

\* Variant: the search loop tests `current->next != NULL` and so stops at
\* the last node when no node has the id.
RECURSIVE findOrLastFrom(_, _, _, _)
findOrLastFrom(h, current, previous, id) ==
    IF current = NULL \/ h.task[current].id = id
                      \/ h.task[current].next = NULL
    THEN [current |-> current, previous |-> previous]
    ELSE findOrLastFrom(h, h.task[current].next, current, id)

undoAddStopsAtLast(list, h, lastAction) ==
    LET f == findOrLastFrom(h, list.head, NULL, lastAction.task_id)
    IN  IF f.current # NULL
        THEN LET u == unlink(list, h, f.current, f.previous)
                 h1 == freeStr(u.heap, u.heap.task[f.current].description)
             IN  [list |-> u.list, heap |-> freeTask(h1, f.current),
                  out |-> "applied"]
        ELSE [list |-> list, heap |-> h, out |-> "inconsistent"]

\* Variant: also hands the id back by decrementing next_id.
undoAddReleasesId(list, h, lastAction) ==
    LET f == find(list, h, lastAction.task_id)
    IN  IF f.current # NULL
        THEN LET u == unlink(list, h, f.current, f.previous)
                 h1 == freeStr(u.heap, u.heap.task[f.current].description)
             IN  [list |-> [u.list EXCEPT !.next_id = @ - 1],
                  heap |-> freeTask(h1, f.current),
                  out |-> "applied"]
        ELSE [list |-> list, heap |-> h, out |-> "inconsistent"]

undoAdd(list, h, lastAction) ==
    LET f == find(list, h, lastAction.task_id)
    IN  IF f.current # NULL
        THEN LET u == unlink(list, h, f.current, f.previous)
                 h1 == freeStr(u.heap, u.heap.task[f.current].description)
             IN  [list |-> u.list, heap |-> freeTask(h1, f.current),
                  out |-> "applied"]
        ELSE [list |-> list, heap |-> h, out |-> "inconsistent"]

\* Variant: reports the reversal without writing the flag.
undoCompleteKeepsFlag(list, h, lastAction) ==
    LET current == find(list, h, lastAction.task_id).current
    IN  IF current # NULL
        THEN [list |-> list, heap |-> h, out |-> "applied"]
        ELSE [list |-> list, heap |-> h, out |-> "inconsistent"]

undoComplete(list, h, lastAction) ==
    LET current == find(list, h, lastAction.task_id).current
    IN  IF current # NULL
        THEN [list |-> list,
              heap |-> [h EXCEPT !.task[current].completed =
                                     lastAction.was_completed],
              out |-> "applied"]
        ELSE [list |-> list, heap |-> h, out |-> "inconsistent"]

\* Variant: the test inverted, `if (next_id > task_id)`.
bumpNextIdInverted(next_id, task_id) ==
    IF next_id > task_id THEN task_id + 1 ELSE next_id

\* Variant: the assignment without its test.
bumpNextIdAlways(next_id, task_id) == task_id + 1

\* `if (next_id <= task_id) next_id = task_id + 1`
bumpNextId(next_id, task_id) ==
    IF next_id <= task_id THEN task_id + 1 ELSE next_id

\* Variant: the re-created task gets a fresh id, as in addTask.
undoRemoveNewId(list, h, lastAction) ==
    LET c  == createTask(h, list.next_id, lastAction.task_description)
        h1 == [c.heap EXCEPT !.task[c.ptr].completed = lastAction.was_completed]
        a  == appendNode([list EXCEPT !.next_id = @ + 1], h1, c.ptr)
    IN  [list |-> a.list, heap |-> a.heap, out |-> "applied"]

\* Variant: re-inserting also consumes an id, `next_id++` as in addTask.
undoRemoveAdvances(list, h, lastAction) ==
    LET c  == createTask(h, lastAction.task_id, lastAction.task_description)
        h1 == [c.heap EXCEPT !.task[c.ptr].completed = lastAction.was_completed]
        a  == appendNode(list, h1, c.ptr)
    IN  [list |-> [a.list EXCEPT
                       !.next_id = bumpNextId(@ + 1, lastAction.task_id)],
         heap |-> a.heap, out |-> "applied"]

\* Variant: the re-created task is left pending.
undoRemovePending(list, h, lastAction) ==
    LET c  == createTask(h, lastAction.task_id, lastAction.task_description)
        a  == appendNode(list, c.heap, c.ptr)
    IN  [list |-> [a.list EXCEPT
                       !.next_id = bumpNextId(@, lastAction.task_id)],
         heap |-> a.heap, out |-> "applied"]

undoRemove(list, h, lastAction) ==
    LET c  == createTask(h, lastAction.task_id, lastAction.task_description)
        h1 == [c.heap EXCEPT !.task[c.ptr].completed = lastAction.was_completed]
        a  == appendNode(list, h1, c.ptr)
    IN  [list |-> [a.list EXCEPT
                       !.next_id = bumpNextId(@, lastAction.task_id)],
         heap |-> a.heap, out |-> "applied"]

undoLastAction(list, stack, h) ==
    LET p == popAction(stack)
        lastAction == p.action
    IN  IF lastAction = NullAction
        THEN [list |-> list, stack |-> p.stack, heap |-> h,
              out |-> "nothing_to_undo", type |-> "none", id |-> 0]
        ELSE LET r == CASE lastAction.type = "ACTION_ADD" ->
                              undoAdd(list, h, lastAction)
                        [] lastAction.type = "ACTION_COMPLETE" ->
                              undoComplete(list, h, lastAction)
                        [] lastAction.type = "ACTION_REMOVE" ->
                              undoRemove(list, h, lastAction)
             IN  [list |-> r.list, stack |-> p.stack,
                  heap |-> freeStr(r.heap, lastAction.task_description),
                  out |-> r.out, type |-> lastAction.type,
                  id |-> lastAction.task_id]

\* k undo commands in a row.
RECURSIVE undoTimes(_, _, _, _)
undoTimes(list, stack, h, k) ==
    IF k = 0 THEN [list |-> list, stack |-> stack, heap |-> h]
    ELSE LET u == undoLastAction(list, stack, h)
         IN  undoTimes(u.list, u.stack, u.heap, k - 1)

-----------------------------------------------------------------------------
(* What listTasks prints, and the history as values *)

RECURSIVE tasksFrom(_, _)
tasksFrom(h, current) ==
    IF current = NULL THEN << >>
    ELSE <<[id |-> h.task[current].id,
            description |-> h.str[h.task[current].description],
            completed |-> h.task[current].completed]>>
         \o tasksFrom(h, h.task[current].next)

listTasks(list, h) == tasksFrom(h, list.head)

actionValue(h, a) ==
    [type |-> a.type, task_id |-> a.task_id,
     description |-> IF a.task_description = NULL THEN "NULL"
                     ELSE h.str[a.task_description],
     was_completed |-> a.was_completed]

historyOf(stack, h) == [i \in 1..Len(stack) |-> actionValue(h, stack[i])]

\* The task store and the history as the user can observe them.
viewOf(list, stack, h) ==
    [tasks |-> listTasks(list, h), next_id |-> list.next_id,
     history |-> historyOf(stack, h)]

View == viewOf(myTasks, undoStack, heap)

Range(s) == {s[i] : i \in DOMAIN s}

-----------------------------------------------------------------------------
(* The menu loop of main: one action per command *)

emptyHeap == [task |-> << >>, str |-> (descriptionBuf :> "")]

\* The record kept of a command:
\*   cmd, id, out, type   the command, its id, what it printed
\*   pushed               it recorded an action in the history
\*   before               the store and history it started from
\*   expect               the newest command not undone when it started
\*   immediate            the command just before it was that `expect`
Command(cmd, id, out, type, pushed) ==
    [cmd |-> cmd, id |-> id, out |-> out, type |-> type, pushed |-> pushed,
     before |-> View,
     expect |-> IF log = << >> THEN << >> ELSE <<log[Len(log)]>>,
     immediate |-> last.pushed]

Entry(type, id) == [type |-> type, id |-> id, before |-> View]

Init ==
    /\ myTasks = initTaskList
    /\ undoStack = initActionStack
    /\ heap = emptyHeap
    /\ last = [cmd |-> "none", id |-> 0, out |-> "none", type |-> "none",
               pushed |-> FALSE,
               before |-> viewOf(initTaskList, initActionStack, emptyHeap),
               expect |-> << >>, immediate |-> FALSE]
    /\ log = << >>
    /\ issued = << >>
    /\ choice = Indeterminate
    /\ pc = "menu"

\* The statements after the loop: both structures are destroyed, main returns.
Teardown ==
    LET t == destroyTaskList(myTasks, heap)
        a == destroyActionStack(undoStack, t.heap)
    IN  /\ myTasks' = t.list
        /\ undoStack' = a.stack
        /\ heap' = a.heap
        /\ log' = << >>
        /\ issued' = << >>
        /\ pc' = "done"

\* The loop test `while (choice != 0)`; a choice never stored can test
\* either way.
loopAgain(c) ==
    IF c = Indeterminate THEN BOOLEAN ELSE {c # 0}

\* Variant: records next_id itself, the id of the task not yet created.
addedIdNext(list) == list.next_id

\* The id main records for an add: `myTasks.next_id - 1`, read after addTask.
addedId(list) == list.next_id - 1

\* Variant: the search loop is missing, the flag of the first task is read.
was_completed_of_head(list, h, id) ==
    IF list.head # NULL
    THEN h.task[list.head].completed
    ELSE FALSE

\* Variant: the flag is read after completeTask has run.
was_completed_after(list, h, id) ==
    LET h1 == completeTask(list, h, id).heap
        taskToComplete == find(list, h1, id).current
    IN  IF taskToComplete # NULL
        THEN h1.task[taskToComplete].completed
        ELSE FALSE

\* The flag main reads before it calls completeTask (false when not found).
was_completed_before(list, h, id) ==
    LET taskToComplete == find(list, h, id).current
    IN  IF taskToComplete # NULL
        THEN h.task[taskToComplete].completed
        ELSE FALSE

\* case 1: fgets fills the buffer, addTask, pushAction(ACTION_ADD).
CmdAdd(d) ==
    /\ pc = "menu"
    /\ choice' = 1
    /\ pc' = "menu"
    /\ myTasks.next_id <= MaxId
    /\ Len(undoStack) < MaxHist
    /\ LET h0 == [heap EXCEPT !.str[descriptionBuf] = d]
           a  == addTask(myTasks, h0, descriptionBuf)
           p  == pushAction(undoStack, a.heap, "ACTION_ADD",
                            addedId(a.list), descriptionBuf, FALSE)
       IN  /\ myTasks' = a.list
           /\ undoStack' = p.stack
           /\ heap' = p.heap
           /\ last' = Command("add", a.id, "added", "ACTION_ADD", TRUE)
           /\ log' = Append(log, Entry("ACTION_ADD", a.id))
           /\ issued' = Append(issued, a.id)

\* case 2
CmdList ==
    /\ pc = "menu"
    /\ choice' = 2
    /\ pc' = "menu"
    /\ last' = Command("list", 0, "listed", "none", FALSE)
    /\ UNCHANGED <<myTasks, undoStack, heap, log, issued>>

\* case 3: read the flag, completeTask, pushAction(ACTION_COMPLETE) on success.
CmdComplete(id_to_process) ==
    /\ pc = "menu"
    /\ choice' = 3
    /\ pc' = "menu"
    /\ Len(undoStack) < MaxHist
    /\ LET was == was_completed_before(myTasks, heap, id_to_process)
           c == completeTask(myTasks, heap, id_to_process)
           p == IF c.ok
                THEN pushAction(undoStack, c.heap, "ACTION_COMPLETE",
                                id_to_process, NULL, was)
                ELSE [stack |-> undoStack, heap |-> c.heap]
       IN  /\ undoStack' = p.stack
           /\ heap' = p.heap
           /\ last' = Command("complete", id_to_process, c.out,
                              "ACTION_COMPLETE", c.ok)
           /\ log' = IF c.ok
                     THEN Append(log, Entry("ACTION_COMPLETE", id_to_process))
                     ELSE log
           /\ UNCHANGED <<myTasks, issued>>

\* case 4: removeTask, pushAction(ACTION_REMOVE), free the detached node.
CmdRemove(id_to_process) ==
    /\ pc = "menu"
    /\ choice' = 4
    /\ pc' = "menu"
    /\ Len(undoStack) < MaxHist
    /\ LET r == removeTask(myTasks, heap, id_to_process)
           removed == r.removed
           p == IF removed # NULL
                THEN pushAction(undoStack, r.heap, "ACTION_REMOVE",
                                r.heap.task[removed].id,
                                r.heap.task[removed].description,
                                r.heap.task[removed].completed)
                ELSE [stack |-> undoStack, heap |-> r.heap]
           h1 == IF removed # NULL
                 THEN freeTask(freeStr(p.heap,
                                       p.heap.task[removed].description),
                               removed)
                 ELSE p.heap
       IN  /\ myTasks' = r.list
           /\ undoStack' = p.stack
           /\ heap' = h1
           /\ last' = Command("remove", id_to_process,
                              IF removed # NULL THEN "removed"
                              ELSE "not_found",
                              "ACTION_REMOVE", removed # NULL)
           /\ log' = IF removed # NULL
                     THEN Append(log, Entry("ACTION_REMOVE", id_to_process))
                     ELSE log
           /\ UNCHANGED issued

\* case 5
CmdUndo ==
    LET u == undoLastAction(myTasks, undoStack, heap)
    IN  /\ pc = "menu"
        /\ choice' = 5
        /\ pc' = "menu"
        /\ myTasks' = u.list
        /\ undoStack' = u.stack
        /\ heap' = u.heap
        /\ last' = Command("undo", u.id, u.out, u.type, FALSE)
        /\ log' = IF log = << >> THEN log ELSE SubSeq(log, 1, Len(log) - 1)
        /\ UNCHANGED issued

\* case 0: the message, then the loop ends.
CmdExit ==
    /\ pc = "menu"
    /\ choice' = 0
    /\ last' = Command("exit", 0, "terminated", "none", FALSE)
    /\ Teardown

\* default: a number that is no menu entry.
CmdDefault(n) ==
    /\ pc = "menu"
    /\ choice' = n
    /\ pc' = "menu"
    /\ last' = Command("default", 0, "invalid_option", "none", FALSE)
    /\ UNCHANGED <<myTasks, undoStack, heap, log, issued>>

\* The menu scanf reads no number: the message, the rest of the line is
\* dropped, and `continue` goes to the loop test with `choice` as it was.
MenuInvalid ==
    /\ pc = "menu"
    /\ choice' = choice
    /\ \E again \in loopAgain(choice) :
           IF again
           THEN /\ last' = Command("invalid_choice", 0, "menu", "none", FALSE)
                /\ pc' = "menu"
                /\ UNCHANGED <<myTasks, undoStack, heap, log, issued>>
           ELSE /\ last' = Command("invalid_choice", 0, "terminated", "none",
                                   FALSE)
                /\ Teardown

\* The id scanf of case 3 or case 4 reads no number: the message, the rest
\* of the line is dropped, and `break` leaves the switch.
IdInvalid(c) ==
    /\ pc = "menu"
    /\ choice' = c
    /\ pc' = "menu"
    /\ last' = Command("invalid_id", 0, "menu", "none", FALSE)
    /\ UNCHANGED <<myTasks, undoStack, heap, log, issued>>

Next ==
    \/ \E d \in Descriptions : CmdAdd(d)
    \/ CmdList
    \/ \E id \in Ids : CmdComplete(id)
    \/ \E id \in Ids : CmdRemove(id)
    \/ CmdUndo
    \/ CmdExit
    \/ \E n \in OtherChoices : CmdDefault(n)
    \/ MenuInvalid
    \/ \E c \in {3, 4} : IdInvalid(c)

Spec == Init /\ [][Next]_vars

-----------------------------------------------------------------------------
(* undoLastAction on any store and any non-empty history *)

TaskValues == [id : {1, 2}, description : Descriptions, completed : BOOLEAN]

AnyStores ==
    {<< >>} \cup {<<t>> : t \in TaskValues}
            \cup {p \in TaskValues \X TaskValues : p[1].id # p[2].id}

ActionValues ==
    [type : {"ACTION_ADD"}, task_id : {1, 2, 3}, description : {"x"},
     was_completed : {FALSE}]
    \cup [type : {"ACTION_COMPLETE"}, task_id : {1, 2, 3},
          description : {"NULL"}, was_completed : BOOLEAN]
    \cup [type : {"ACTION_REMOVE"}, task_id : {1, 2, 3},
          description : {"y"}, was_completed : BOOLEAN]

AnyHistories == UNION {[1..n -> ActionValues] : n \in 1..MaxAny}

\* The list holding these tasks, in this order.
RECURSIVE buildTasks(_, _, _)
buildTasks(list, h, tasks) ==
    IF tasks = << >> THEN [list |-> list, heap |-> h]
    ELSE LET t  == Head(tasks)
             c  == createTask([h EXCEPT !.str[descriptionBuf] = t.description],
                              t.id, descriptionBuf)
             h1 == [c.heap EXCEPT !.task[c.ptr].completed = t.completed]
             a  == appendNode(list, h1, c.ptr)
         IN  buildTasks(a.list, a.heap, Tail(tasks))

\* The stack holding these actions, the first on top.
RECURSIVE buildActions(_, _)
buildActions(h, actions) ==
    IF actions = << >> THEN [stack |-> << >>, heap |-> h]
    ELSE LET a == Head(actions)
             r == buildActions(h, Tail(actions))
         IN  pushAction(r.stack,
                        [r.heap EXCEPT !.str[descriptionBuf] =
                             IF a.description = "NULL" THEN @
                             ELSE a.description],
                        a.type, a.task_id,
                        IF a.description = "NULL" THEN NULL
                        ELSE descriptionBuf,
                        a.was_completed)

InitAny ==
    \E tasks \in AnyStores, actions \in AnyHistories,
       n \in {1, MaxId + 1} :
        LET t == buildTasks(initTaskList, emptyHeap, tasks)
            a == buildActions(t.heap, actions)
            l == [t.list EXCEPT !.next_id = n]
        IN  /\ myTasks = l
            /\ undoStack = a.stack
            /\ heap = a.heap
            /\ last = [cmd |-> "none", id |-> 0, out |-> "none",
                       type |-> "none", pushed |-> FALSE,
                       before |-> viewOf(l, a.stack, a.heap),
                       expect |-> << >>, immediate |-> FALSE]
            /\ log = << >>
            /\ issued = << >>
            /\ choice = 5
            /\ pc = "menu"

NextAny == CmdUndo

SpecAny == InitAny /\ [][NextAny]_vars

-----------------------------------------------------------------------------
(* Properties *)

\* The task with this id in a list of task values.
withId(tasks, id) == SelectSeq(tasks, LAMBDA t : t.id = id)
withoutId(tasks, id) == SelectSeq(tasks, LAMBDA t : t.id # id)
idsOf(tasks) == {tasks[i].id : i \in DOMAIN tasks}

\* The last command was an undo issued right after a successful command of
\* this type, with nothing in between.
UndoRightAfter(type) ==
    /\ last.cmd = "undo"
    /\ last.immediate
    /\ last.expect # << >>
    /\ last.expect[1].type = type

\* C1: undo is strictly LIFO.  Every undo issued while some state-changing
\* command is not yet undone reverses the newest such command: it reports
\* that command's kind and id, and brings back the tasks and the history
\* that command started from.  An undo issued when every command has been
\* undone reports nothing_to_undo and changes neither the store nor the
\* history.
UndoIsLIFO ==
    last.cmd = "undo" =>
        IF last.expect = << >>
        THEN /\ last.out = "nothing_to_undo"
             /\ View = last.before
        ELSE LET e == last.expect[1]
             IN  /\ last.out = "applied"
                 /\ last.type = e.type
                 /\ last.id = e.id
                 /\ Range(View.tasks) = Range(e.before.tasks)
                 /\ Len(View.tasks) = Len(e.before.tasks)
                 /\ View.history = e.before.history

\* Two adds were made and everything has been undone; one more undo found
\* nothing to undo.
UndoIsLIFOWitness ==
    /\ last.cmd = "undo"
    /\ last.out = "nothing_to_undo"
    /\ Len(issued) >= 2
    /\ View.tasks = << >>
    /\ View.history = << >>

\* C2: add immediately followed by undo leaves exactly the tasks that were
\* there before the add: same ids, descriptions, flags and order.
AddUndoRestoresTasks ==
    UndoRightAfter("ACTION_ADD") =>
        View.tasks = last.expect[1].before.tasks

AddUndoRestoresTasksWitness ==
    /\ UndoRightAfter("ACTION_ADD")
    /\ last.out = "applied"
    /\ Len(View.tasks) >= 2
    /\ \E i \in DOMAIN View.tasks : View.tasks[i].completed

\* C3 as stated: after add immediately followed by undo, next_id has the
\* value it had before the add.
AddUndoKeepsNextId ==
    UndoRightAfter("ACTION_ADD") =>
        View.next_id = last.expect[1].before.next_id

\* C3 amended: after add immediately followed by undo, next_id is one more
\* than it was before the add; the undone id is not handed out again.
AddUndoAdvancesNextId ==
    UndoRightAfter("ACTION_ADD") =>
        View.next_id = last.expect[1].before.next_id + 1

AddUndoAdvancesNextIdWitness ==
    /\ UndoRightAfter("ACTION_ADD")
    /\ last.out = "applied"
    /\ last.id = last.expect[1].before.next_id
    /\ last.id \notin idsOf(View.tasks)

\* C4: remove(id) immediately followed by undo gives back a task with the
\* same id, description and completed flag, placed at the tail; every other
\* task is unchanged and keeps its relative order.
RemoveUndoReinsertsAtTail ==
    UndoRightAfter("ACTION_REMOVE") =>
        LET e == last.expect[1]
            b == e.before.tasks
        IN  /\ Len(withId(b, e.id)) = 1
            /\ View.tasks = withoutId(b, e.id) \o withId(b, e.id)

\* The removed task was completed and stood first of several.
RemoveUndoReinsertsAtTailWitness ==
    /\ UndoRightAfter("ACTION_REMOVE")
    /\ last.out = "applied"
    /\ LET b == last.expect[1].before.tasks
       IN  /\ Len(b) >= 2
           /\ b[1].id = last.expect[1].id
           /\ b[1].completed

\* C5: the ids assigned by successive adds are strictly increasing, whatever
\* removes and undos happen in between.
AddIdsStrictlyIncreasing ==
    \A i, j \in DOMAIN issued : i < j => issued[i] < issued[j]

\* An add made on an empty store and an empty history after an earlier add
\* was undone.
AddIdsStrictlyIncreasingWitness ==
    /\ last.cmd = "add"
    /\ Len(issued) >= 2
    /\ last.before.tasks = << >>
    /\ last.before.history = << >>

\* C6: next_id is strictly greater than every id ever issued, every id in
\* the store and every id in the undo history.
NextIdAboveEveryId ==
    \A id \in Range(issued) \cup idsOf(View.tasks)
              \cup {View.history[i].task_id : i \in DOMAIN View.history} :
        id < View.next_id

\* Undo has re-inserted a removed task whose id is smaller than an id issued
\* after the removal.
NextIdAboveEveryIdWitness ==
    /\ last.cmd = "undo"
    /\ last.type = "ACTION_REMOVE"
    /\ last.out = "applied"
    /\ last.id \in idsOf(View.tasks)
    /\ \E i \in DOMAIN issued : issued[i] > last.id

\* C7: complete(id) of a pending task immediately followed by undo sets the
\* task's flag back to false and leaves every other task and next_id
\* unchanged.
CompleteUndoRestoresFlag ==
    UndoRightAfter("ACTION_COMPLETE") =>
        LET e == last.expect[1]
            t == withId(e.before.tasks, e.id)
        IN  /\ Len(t) = 1
            /\ ~t[1].completed
            /\ View.tasks = e.before.tasks
            /\ View.next_id = e.before.next_id

\* Another task of the store stays completed across the undo.
CompleteUndoRestoresFlagWitness ==
    /\ UndoRightAfter("ACTION_COMPLETE")
    /\ last.out = "applied"
    /\ \E i \in DOMAIN View.tasks :
           View.tasks[i].completed /\ View.tasks[i].id # last.id

\* C8: complete on a pending task reports toggled and sets the flag; a second
\* complete of the same id right after it reports already_completed and the
\* flag is still true.
CompleteIsIdempotent ==
    last.cmd = "complete" =>
        LET was == withId(last.before.tasks, last.id)
            now == withId(View.tasks, last.id)
        IN  /\ (Len(was) = 1 /\ ~was[1].completed) =>
                   /\ last.out = "toggled"
                   /\ Len(now) = 1 /\ now[1].completed
            /\ ( /\ last.immediate
                 /\ last.expect # << >>
                 /\ last.expect[1].type = "ACTION_COMPLETE"
                 /\ last.expect[1].id = last.id ) =>
                   /\ last.out = "already_completed"
                   /\ Len(now) = 1 /\ now[1].completed

CompleteIsIdempotentWitness ==
    /\ last.cmd = "complete"
    /\ last.out = "already_completed"
    /\ last.immediate
    /\ last.expect # << >>
    /\ last.expect[1].type = "ACTION_COMPLETE"
    /\ last.expect[1].id = last.id

\* C9: a complete(id) that finds no task, or finds the task already
\* completed, leaves the store and the history as they were; and every
\* completion that undo reverts is one that happened: the task was completed
\* when the undo started.
CompleteNoOpLeavesNoTrace ==
    /\ (last.cmd = "complete" /\ last.out # "toggled") =>
           /\ View = last.before
           /\ ~last.pushed
    /\ (last.cmd = "complete" /\
        \A i \in DOMAIN last.before.tasks :
            last.before.tasks[i].id = last.id =>
                last.before.tasks[i].completed) =>
           View = last.before
    /\ (last.cmd = "undo" /\ last.type = "ACTION_COMPLETE") =>
           LET t == withId(last.before.tasks, last.id)
           IN  Len(t) = 1 /\ t[1].completed

\* A complete of an already completed task, with actions in the history.
CompleteNoOpLeavesNoTraceWitness ==
    /\ last.cmd = "complete"
    /\ last.out = "already_completed"
    /\ ~last.immediate
    /\ View.history # << >>
    /\ View.history[1].type # "ACTION_COMPLETE"

\* C10: remove(id) detaches the task with that id and nothing else: the other
\* tasks keep their values and order, next_id is unchanged, and when no task
\* has the id the store and the history are unchanged.
RemoveOnlyDetaches ==
    last.cmd = "remove" =>
        /\ View.tasks = withoutId(last.before.tasks, last.id)
        /\ View.next_id = last.before.next_id
        /\ (last.id \in idsOf(last.before.tasks)) =>
               /\ last.out = "removed"
               /\ Len(View.tasks) = Len(last.before.tasks) - 1
        /\ (last.id \notin idsOf(last.before.tasks)) =>
               /\ last.out = "not_found"
               /\ View = last.before

\* The task removed stood between two others.
RemoveOnlyDetachesWitness ==
    /\ last.cmd = "remove"
    /\ last.out = "removed"
    /\ Len(last.before.tasks) = 3
    /\ last.before.tasks[2].id = last.id

\* C11: through the commands of the menu, undo never reports an inconsistent
\* store: whenever it pops an Add or a Complete action, a task with the
\* action's id is in the store, and the undo is applied.
UndoNeverInconsistent ==
    last.cmd = "undo" =>
        /\ last.out # "inconsistent"
        /\ last.type \in {"ACTION_ADD", "ACTION_COMPLETE"} =>
               /\ last.id \in idsOf(last.before.tasks)
               /\ last.out = "applied"

\* Undo pops the Add of a task that was removed and re-inserted in between.
UndoNeverInconsistentWitness ==
    /\ last.cmd = "undo"
    /\ last.type = "ACTION_ADD"
    /\ last.out = "applied"
    /\ ~last.immediate
    /\ Len(last.before.tasks) >= 2
    /\ last.before.tasks[Len(last.before.tasks)].id = last.id
    /\ last.id < last.before.next_id - 1

\* C12: on any store and any non-empty history, an undo that pops an Add or
\* a Complete action whose task is not in the store reports inconsistent,
\* leaves the tasks, their order and next_id as they were, and removes that
\* one action from the history.
UndoOfAbsentTask ==
    ( /\ last.cmd = "undo"
      /\ last.type \in {"ACTION_ADD", "ACTION_COMPLETE"}
      /\ last.id \notin idsOf(last.before.tasks) ) =>
        /\ last.out = "inconsistent"
        /\ View.tasks = last.before.tasks
        /\ View.next_id = last.before.next_id
        /\ View.history = Tail(last.before.history)

\* The store held two tasks and the history a second action below the one
\* popped.
UndoOfAbsentTaskWitness ==
    /\ last.cmd = "undo"
    /\ last.type \in {"ACTION_ADD", "ACTION_COMPLETE"}
    /\ last.id \notin idsOf(last.before.tasks)
    /\ last.out = "inconsistent"
    /\ Len(View.tasks) = 2
    /\ Len(View.history) >= 1

\* The command of this step changed the store.
StateChanging(c) ==
    \/ c.cmd = "add"
    \/ c.cmd = "complete" /\ c.out = "toggled"
    \/ c.cmd = "remove" /\ c.out = "removed"

\* C13: the history is a true stack.  While the menu loop runs, every
\* state-changing command (add, successful complete, successful remove)
\* pushes exactly one action, of its kind and id, on top of the actions
\* already there; every undo that finds the history non-empty pops exactly
\* the top one; no other command changes the history; so its length is the
\* number of state-changing commands minus the number of such undos.
HistoryIsAStackStep ==
    pc' = "menu" =>
        /\ Len(undoStack') = Len(log')
        /\ IF StateChanging(last')
           THEN /\ Len(undoStack') = Len(undoStack) + 1
                /\ Tail(undoStack') = undoStack
                /\ Head(undoStack').type = last'.type
                /\ Head(undoStack').task_id = last'.id
           ELSE IF last'.cmd = "undo" /\ undoStack # << >>
           THEN undoStack' = Tail(undoStack)
           ELSE undoStack' = undoStack

HistoryIsAStack == [][HistoryIsAStackStep]_vars

\* An undo has popped one of three actions.
HistoryIsAStackWitness ==
    /\ last.cmd = "undo"
    /\ last.out = "applied"
    /\ Len(last.before.history) = 3
    /\ Len(undoStack) = 2
    /\ Len(log) = 2

\* C14: the history holds only copies of its own.  The description of every
\* action in the history is allocated storage (never freed storage), is not
\* the description of any task node, is not main's input buffer and is not
\* shared with another action; Add and Remove actions always carry one.
ActionsOwnTheirCopies ==
    \A i \in DOMAIN undoStack :
        LET d == undoStack[i].task_description
        IN  /\ undoStack[i].type \in {"ACTION_ADD", "ACTION_REMOVE"} =>
                   d # NULL
            /\ d # NULL =>
                   /\ d \in DOMAIN heap.str
                   /\ d # descriptionBuf
                   /\ \A t \in DOMAIN heap.task : heap.task[t].description # d
                   /\ \A j \in DOMAIN undoStack :
                          j # i => undoStack[j].task_description # d

\* The history holds the Remove of a task whose node and description have
\* been freed, next to the Add of a task that is still in the store.
ActionsOwnTheirCopiesWitness ==
    /\ \E i \in DOMAIN undoStack :
           /\ undoStack[i].type = "ACTION_REMOVE"
           /\ undoStack[i].task_id \notin idsOf(listTasks(myTasks, heap))
           /\ heap.str[undoStack[i].task_description] \in Descriptions
    /\ \E i \in DOMAIN undoStack :
           /\ undoStack[i].type = "ACTION_ADD"
           /\ undoStack[i].task_id \in idsOf(listTasks(myTasks, heap))

\* C15: non-numeric input at the menu prompt or at the id prompt of complete
\* or remove is rejected without side effects: the store and the history are
\* unchanged and the menu is shown again, at every point of the session,
\* the very first prompt included.
InvalidInputShowsMenuAgain ==
    last.cmd \in {"invalid_choice", "invalid_id"} =>
        /\ View = last.before
        /\ pc = "menu"

\* C16: no two tasks in the store share an id; undo of a remove never puts
\* back an id that is already in the store.
TaskIdsAreUnique ==
    LET tasks == listTasks(myTasks, heap)
    IN  /\ \A i, j \in DOMAIN tasks : tasks[i].id = tasks[j].id => i = j
        /\ (last.cmd = "undo" /\ last.type = "ACTION_REMOVE") =>
               last.id \notin idsOf(last.before.tasks)

\* Undo has put a removed task back into a store that holds a task added
\* after it.
TaskIdsAreUniqueWitness ==
    /\ last.cmd = "undo"
    /\ last.type = "ACTION_REMOVE"
    /\ last.out = "applied"
    /\ Len(View.tasks) >= 2
    /\ View.tasks[Len(View.tasks)].id = last.id
    /\ \E i \in DOMAIN View.tasks : View.tasks[i].id > last.id

\* The store and history that k undo commands would leave from here.
AfterUndos(k) ==
    LET u == undoTimes(myTasks, undoStack, heap, k)
    IN  viewOf(u.list, u.stack, u.heap)

\* C17: k state-changing commands followed by k undos bring back the tasks
\* (as a set of id, description and flag) and the history of the state the
\* commands started from.  In every state, for every k up to the number of
\* commands not undone, k undos from here give the tasks and the history
\* recorded before the k-th newest of those commands.
UndosRestoreTheStart ==
    \A k \in 1..Len(log) :
        LET v == AfterUndos(k)
            b == log[Len(log) - k + 1].before
        IN  /\ Range(v.tasks) = Range(b.tasks)
            /\ Len(v.tasks) = Len(b.tasks)
            /\ v.history = b.history

\* Two commands, on top of two earlier ones, whose undos restore the tasks
\* in another order and with another next_id.
UndosRestoreTheStartWitness ==
    /\ pc = "menu"
    /\ Len(log) >= 4
    /\ LET v == AfterUndos(2)
           b == log[Len(log) - 1].before
       IN  /\ v.tasks # b.tasks
           /\ v.next_id # b.next_id
           /\ Range(v.tasks) = Range(b.tasks)

\* The allocated nodes met from p by following next, at most `fuel` of them.
RECURSIVE chain(_, _, _)
chain(h, p, fuel) ==
    IF p = NULL \/ p \notin DOMAIN h.task \/ fuel = 0 THEN << >>
    ELSE <<p>> \o chain(h, h.task[p].next, fuel - 1)

\* C18: the linked list is well formed: head is NULL exactly when tail is
\* NULL, the chain from head meets only allocated nodes, none of them twice,
\* and ends at tail, whose next is NULL.
ListIsWellFormed ==
    LET n == Cardinality(DOMAIN heap.task)
        c == chain(heap, myTasks.head, n + 1)
    IN  /\ (myTasks.head = NULL) <=> (myTasks.tail = NULL)
        /\ Len(c) <= n
        /\ \A i, j \in DOMAIN c : c[i] = c[j] => i = j
        /\ myTasks.head # NULL =>
               /\ c # << >>
               /\ c[Len(c)] = myTasks.tail
               /\ heap.task[myTasks.tail].next = NULL

\* The last of three nodes has just been removed.
ListIsWellFormedWitness ==
    /\ last.cmd = "remove"
    /\ last.out = "removed"
    /\ Len(last.before.tasks) = 3
    /\ last.before.tasks[3].id = last.id
    /\ Len(chain(heap, myTasks.head, 3)) = 2

\* C19: while the menu loop runs next_id never decreases, and whenever undo
\* re-inserts a removed task next_id is already greater than the task's id:
\* the adjustment `next_id = task_id + 1` is never applied and undo of a
\* remove leaves next_id as it was.
NextIdStep ==
    pc' = "menu" =>
        /\ myTasks'.next_id >= myTasks.next_id
        /\ (last'.cmd = "undo" /\ last'.type = "ACTION_REMOVE") =>
               /\ myTasks.next_id > last'.id
               /\ myTasks'.next_id = myTasks.next_id

NextIdNeverDecreases == [][NextIdStep]_vars

\* Undo has re-inserted a task whose id is at least two below next_id.
NextIdNeverDecreasesWitness ==
    /\ last.cmd = "undo"
    /\ last.type = "ACTION_REMOVE"
    /\ last.out = "applied"
    /\ last.before.next_id > last.id + 1
    /\ myTasks.next_id = last.before.next_id

\* C20: every Complete action in the history records was_completed = false,
\* and an undo that reverts a completion leaves that task pending.
CompleteRecordsPending ==
    /\ \A i \in DOMAIN undoStack :
           undoStack[i].type = "ACTION_COMPLETE" =>
               ~undoStack[i].was_completed
    /\ (last.cmd = "undo" /\ last.type = "ACTION_COMPLETE"
                          /\ last.out = "applied") =>
           \A i \in DOMAIN View.tasks :
               View.tasks[i].id = last.id => ~View.tasks[i].completed

\* The history holds the Complete of a task that stands behind a completed
\* first task.
CompleteRecordsPendingWitness ==
    LET tasks == listTasks(myTasks, heap)
    IN  /\ Len(tasks) >= 2
        /\ tasks[1].completed
        /\ undoStack # << >>
        /\ undoStack[1].type = "ACTION_COMPLETE"
        /\ undoStack[1].task_id = tasks[2].id
        /\ tasks[2].completed

====
